---- MODULE Spec2Model ----
(***************************************************************************)
(* State-machine model of src/src/rabbit-lru-cache.ts: one cache instance  *)
(* created by createRabbitLRUCache, its LRU store, its table of pending    *)
(* loads (loadItemPromises), the invalidation consumer (onMessage), the    *)
(* reconnect handler (handleConnectionError) and the facade operations.    *)
(*                                                                         *)
(* JavaScript runs one callback at a time, so every action below is one    *)
(* run-to-completion piece of code between two suspension points (await,   *)
(* setTimeout, event delivery).                                            *)
(***************************************************************************)
EXTENDS Integers, Sequences, FiniteSets, TLC

(* ------------------------------ bounds --------------------------------- *)
MaxLoads == 2
MaxWaiters == 1
MaxChains == 2
MaxConns == 2
MaxAttempt == 2
MaxListeners == 1
\* how many of the keys the callers and peers of Spec and SpecFacade work on
MaxKeys == 1

(* --------------------------- fixed universe ---------------------------- *)
\* strings are sequences of one-character strings, so that startsWith and
\* substring are computed and not assumed
KeyList == << <<"a">>, <<"b">> >>
Keys == { KeyList[i] : i \in 1..Len(KeyList) }
UsedKeys == { KeyList[i] : i \in { j \in 1..Len(KeyList) : j <= MaxKeys } }
NoKey == <<"?">>

\* uuid.v1() of this instance and of one other instance of the same exchange
cacheId == "self"
PeerId == "peer"
NoHeader == "undefined"
Senders == { cacheId, PeerId, NoHeader }

\* null / undefined, as a loader result or as the answer of cache.get
Absent == 0

PromiseIds == 1..MaxLoads
WaiterIds == 1..MaxWaiters
ChainIds == 1..MaxChains
ConnIds == 1..MaxConns

ResetPayload == <<"r","e","s","e","t">>
DelPrefix == <<"d","e","l",":">>

\* `del:${key}`                                  (template string, line 176)
DelPayload(key) == DelPrefix \o key

\* the payloads the protocol defines
ProtocolPayloads == { ResetPayload } \cup { DelPayload(k) : k \in Keys }

\* and payloads it does not: an empty key, a key no call used, near misses
Payloads ==
    ProtocolPayloads \cup
    { DelPrefix,
      <<"d","e","l">>,
      <<"r","e","s","e","t","s">>,
      <<"d","e","l",":","a","b">>,
      <<"x","d","e","l",":","a">>,
      <<"R","e","s","e","t">>,
      <<>> }

\* String.prototype.startsWith
startsWith(s, prefix) ==
    /\ Len(s) >= Len(prefix)
    /\ \A i \in 1..Len(prefix) : s[i] = prefix[i]

\* substring that counts from 1
substringFromOne(s, from) ==
    IF from > Len(s) THEN <<>> ELSE SubSeq(s, from, Len(s))

\* String.prototype.substring(from), from counted from 0
substring(s, from) ==
    IF from >= Len(s) THEN <<>> ELSE SubSeq(s, from + 1, Len(s))

EventNames == { "invalidation-message-received", "reconnecting", "reconnected" }

\* the facade operations guarded by assertIsClosingOrClosed that only inspect
InspectorOps ==
    { "has", "keys", "doesAllowStale", "getItemCount", "getLength", "getMax",
      "getMaxAge" }

ListenerOps ==
    { "addInvalidationMessageReceivedListener",
      "removeInvalidationMessageReceivedListener",
      "addReconnectingListener", "removeReconnectingListener",
      "addReconnectedListener", "removeReconnectedListener" }

\* (retryIntervalIncrease, retryIntervalUpTo) pairs an instance is created with
RetryOptions == { <<2, 3>> }

VARIABLES
    allowStaleData,         \* options.reconnectionOptions?.allowStaleData
    retryIntervalIncrease,  \* options.reconnectionOptions?.retryIntervalIncrease
    retryIntervalUpTo,      \* options.reconnectionOptions?.retryIntervalUpTo
    closing,                \* let closing
    reconnecting,           \* let reconnecting
    cache,                  \* the LRU store: key -> value, Absent when not held
    loadItemPromises,       \* key -> promise id, 0 when the key has no entry
    promises,               \* the promises returned by loadItem, by id
    nextPromise,            \* id of the next promise loadItem returns
    waiters,                \* getOrLoad calls that returned another call's promise
    removedMidLoad,         \* history: promises whose entry left the table while pending
    listeners,              \* eventEmitter: number of listeners per event
    connection,             \* let connection (id)
    publisherChannel,       \* let publisherChannel: id of the connection it is on
    subscriberChannel,      \* let subscriberChannel: id of the connection it is on
    conns,                  \* the amqp connections ever opened, by id
    nextConn,               \* id of the next connection connect() returns
    chains,                 \* the running handleConnectionError invocations
    closeSt,                \* position of close() and the objects it awaits
    effects,                \* what the last step did, in program order
    last                    \* the step just taken and what it returned or threw

configVars == << allowStaleData, retryIntervalIncrease, retryIntervalUpTo >>
loadVars == << loadItemPromises, promises, nextPromise, waiters, removedMidLoad >>
connVars == << connection, publisherChannel, subscriberChannel, conns, nextConn >>

vars == << allowStaleData, retryIntervalIncrease, retryIntervalUpTo, closing,
           reconnecting, cache, loadItemPromises, promises, nextPromise,
           waiters, removedMidLoad, listeners, connection, publisherChannel,
           subscriberChannel, conns, nextConn, chains, closeSt, effects, last >>

(* ----------------------------- records --------------------------------- *)
\* outage: the load began while reconnecting and no reconnected event came since
NoPromise ==
    [ key |-> NoKey, state |-> "unused", value |-> 0, owner |-> "none",
      outage |-> FALSE ]
\* a promise nobody awaits any more
DonePromise ==
    [ key |-> NoKey, state |-> "done", value |-> 0, owner |-> "returned",
      outage |-> FALSE ]
NoConn == [ state |-> "none", fired |-> FALSE, consumer |-> FALSE ]
NoChain == [ pc |-> "idle", attempt |-> 0, retryInterval |-> 0, conn |-> 0 ]
NoClose == [ pc |-> "idle", sub |-> 0, pub |-> 0, conn |-> 0 ]

Step(name, key, outcome, value) ==
    [ op |-> name, key |-> key, outcome |-> outcome, value |-> value,
      promise |-> 0, header |-> "", content |-> <<>> ]

Effect(kind, name, content, who, value, retryInterval) ==
    [ kind |-> kind, name |-> name, content |-> content, who |-> who,
      value |-> value, retryInterval |-> retryInterval ]

\* publisherChannel.publish(exchangeName, "", message, { headers: { "x-cache-id": who } })
Published(message, who) == Effect("publish", "", message, who, 0, 0)
\* eventEmitter.emit("invalidation-message-received", content, publisherCacheId)
EmitReceived(content, who) ==
    Effect("emit", "invalidation-message-received", content, who, 0, 0)
\* eventEmitter.emit(name, error, attempt, retryInterval)
EmitReconnect(name, attempt, retryInterval) ==
    Effect("emit", name, <<>>, "", attempt, retryInterval)
\* internalDel(key), internalReset(), cache.set(key, value), cache.reset(),
\* delete loadItemPromises[key]
DidInternalDel(key) == Effect("internalDel", "", key, "", 0, 0)
DidInternalReset == Effect("internalReset", "", <<>>, "", 0, 0)
DidCacheSet(key, value) == Effect("cache.set", "", key, "", value, 0)
DidCacheReset == Effect("cache.reset", "", <<>>, "", 0, 0)
DidDeleteEntry(key) == Effect("deleteEntry", "", key, "", 0, 0)

OfKind(effs, kind) == SelectSeq(effs, LAMBDA e : e.kind = kind)

(* ------------------- the LRU store and the table ----------------------- *)
EmptyCache == [ k \in Keys |-> Absent ]
EmptyTable == [ k \in Keys |-> 0 ]

itemCount(c) == Cardinality({ k \in Keys : c[k] # Absent })

\* internalDel, the loadItemPromises half
internalDelPromises(table, key) ==
    [ k \in Keys |-> IF k = key /\ table[k] # 0 THEN 0 ELSE table[k] ]

\* internalDel, the cache.del half
internalDelCache(c, key) ==
    [ k \in Keys |-> IF k = key THEN Absent ELSE c[k] ]

\* history of the table: the pending promises whose entry table2 has lost
noteRemoved(table2) ==
    removedMidLoad \cup
        { p \in PromiseIds :
            /\ promises[p].state = "pending"
            /\ loadItemPromises[promises[p].key] = p
            /\ table2[promises[p].key] = 0 }

\* a publish that forgets the x-cache-id header
publishWithoutHeader(message) ==
    IF reconnecting
    THEN <<>>
    ELSE << Published(message, NoHeader) >>

\* a publish that does not look at the reconnecting flag
publishAlways(message) == << Published(message, cacheId) >>

\* publish(message): what reaches publisherChannel.publish
publish(message) ==
    IF reconnecting
    THEN <<>>
    ELSE << Published(message, cacheId) >>

Init ==
    /\ allowStaleData \in BOOLEAN
    /\ \E o \in RetryOptions :
          /\ retryIntervalIncrease = o[1]
          /\ retryIntervalUpTo = o[2]
    /\ closing = FALSE
    /\ reconnecting = FALSE
    /\ cache = EmptyCache
    /\ loadItemPromises = EmptyTable
    /\ promises = [ p \in PromiseIds |-> NoPromise ]
    /\ nextPromise = 1
    /\ waiters = [ w \in WaiterIds |-> 0 ]
    /\ removedMidLoad = {}
    /\ listeners = [ e \in EventNames |-> 0 ]
    /\ connection = 1
    /\ publisherChannel = 1
    /\ subscriberChannel = 1
    /\ conns = [ c \in ConnIds |->
                   IF c = 1
                   THEN [ state |-> "open", fired |-> FALSE, consumer |-> TRUE ]
                   ELSE NoConn ]
    /\ nextConn = 2
    /\ chains = [ i \in ChainIds |-> NoChain ]
    /\ closeSt = NoClose
    /\ effects = <<>>
    /\ last = Step("create", NoKey, "ok", 0)

(* ------------------------------ getOrLoad ------------------------------ *)
\* The continuation of an await on a settled promise is a microtask: it runs
\* before any timer, socket or broker callback does. Those callbacks wait
\* until no call is left to resume on a settled promise.
noMicrotask == \A p \in PromiseIds : promises[p].state \notin { "resolved", "rejected" }

\* a getOrLoad that never looks at the table
findsInflightNever(key) == FALSE

\* line 201: does this call find an entry to share
findsInflight(key) == loadItemPromises[key] # 0

\* lines 195-206: the call up to its return or its first suspension
getOrLoad(key) ==
    /\ IF closing
       THEN \* line 196: assertIsClosingOrClosed throws, the call rejects
            /\ last' = Step("getOrLoad", key, "ClosingError", 0)
            /\ UNCHANGED loadVars
       ELSE IF cache[key] # Absent
       THEN \* lines 197-200
            /\ last' = Step("getOrLoad", key, "value", cache[key])
            /\ UNCHANGED loadVars
       ELSE IF findsInflight(key)
       THEN \* lines 201-203: the call returns the promise the table holds
            /\ \E w \in WaiterIds :
                  /\ waiters[w] = 0
                  /\ \A w2 \in WaiterIds : w2 < w => waiters[w2] # 0
                  /\ waiters' = [ waiters EXCEPT ![w] = loadItemPromises[key] ]
            /\ last' = [ Step("getOrLoad", key, "joined", 0)
                           EXCEPT !.promise = loadItemPromises[key] ]
            /\ UNCHANGED << loadItemPromises, promises, nextPromise, removedMidLoad >>
       ELSE \* lines 204-206: loadItem(key) is invoked, its promise is put in
            \* the table and the call suspends on it
            /\ nextPromise <= MaxLoads
            /\ loadItemPromises' = [ loadItemPromises EXCEPT ![key] = nextPromise ]
            /\ promises' = [ promises EXCEPT ![nextPromise] =
                               [ key |-> key, state |-> "pending", value |-> 0,
                                 owner |-> "awaiting", outage |-> reconnecting ] ]
            /\ nextPromise' = nextPromise + 1
            /\ removedMidLoad' = noteRemoved(loadItemPromises')
            /\ last' = [ Step("getOrLoad", key, "loading", 0)
                           EXCEPT !.promise = nextPromise ]
            /\ UNCHANGED waiters
    /\ effects' = <<>>
    /\ UNCHANGED << configVars, closing, reconnecting, cache, listeners,
                    connVars, chains, closeSt >>

\* the user's loader resolves its promise; the value of load p is p itself,
\* or null/undefined
loaderResolves(p, value) ==
    /\ promises[p].state = "pending"
    /\ promises' = [ promises EXCEPT ![p].state = "resolved", ![p].value = value ]
    /\ last' = Step("loaderResolves", NoKey, "ok", 0)
    /\ effects' = <<>>
    /\ UNCHANGED << configVars, closing, reconnecting, cache, loadItemPromises,
                    nextPromise, waiters, removedMidLoad, listeners, connVars,
                    chains, closeSt >>

\* the user's loader rejects its promise with error p
loaderRejects(p) ==
    /\ promises[p].state = "pending"
    /\ promises' = [ promises EXCEPT ![p].state = "rejected", ![p].value = p ]
    /\ last' = Step("loaderRejects", NoKey, "ok", 0)
    /\ effects' = <<>>
    /\ UNCHANGED << configVars, closing, reconnecting, cache, loadItemPromises,
                    nextPromise, waiters, removedMidLoad, listeners, connVars,
                    chains, closeSt >>

\* a store condition that forgets the reconnecting flag
shouldStoreWhileReconnecting(key, loadedItem) ==
    /\ loadItemPromises[key] # 0
    /\ loadedItem # Absent

\* lines 207-209: the condition under which the loaded item is stored
shouldStore(key, loadedItem) ==
    /\ allowStaleData \/ ~reconnecting
    /\ loadItemPromises[key] # 0
    /\ loadedItem # Absent

\* a completion path that leaves the entry in the table
afterFinallySkipped(table, key) == table

\* lines 213-217: the table after the finally block
afterFinally(table, key) ==
    [ k \in Keys |-> IF k = key /\ table[k] # 0 THEN 0 ELSE table[k] ]

\* lines 206-217: the call that invoked the loader resumes after its await
getOrLoadResume(p) ==
    /\ promises[p].owner = "awaiting"
    /\ promises[p].state \in { "resolved", "rejected" }
    /\ LET key == promises[p].key
           loadedItem == promises[p].value
           stored == promises[p].state = "resolved" /\ shouldStore(key, loadedItem)
       IN  /\ cache' = IF stored THEN [ cache EXCEPT ![key] = loadedItem ] ELSE cache
           /\ last' = [ Step("getOrLoadResume", key,
                             IF promises[p].state = "resolved" THEN "value" ELSE "error",
                             loadedItem)
                          EXCEPT !.promise = p ]
           \* finally, lines 213-217
           /\ loadItemPromises' = afterFinally(loadItemPromises, key)
           /\ effects' = (IF stored THEN << DidCacheSet(key, loadedItem) >> ELSE <<>>)
                         \o (IF loadItemPromises[key] # 0
                             THEN << DidDeleteEntry(key) >> ELSE <<>>)
    /\ promises' = [ promises EXCEPT ![p] =
                       IF \E w \in WaiterIds : waiters[w] = p
                       THEN [ promises[p] EXCEPT !.owner = "returned" ]
                       ELSE DonePromise ]
    /\ removedMidLoad' = noteRemoved(loadItemPromises') \ { p }
    /\ UNCHANGED << configVars, closing, reconnecting, nextPromise, waiters,
                    listeners, connVars, chains, closeSt >>

\* a waiter that swallows the rejection of the load it shares
sharedOutcomeSwallowed(p) ==
    [ outcome |-> "value",
      value |-> IF promises[p].state = "resolved" THEN promises[p].value ELSE Absent ]

\* what a call that returned promise p at line 202 settles with
sharedOutcome(p) ==
    [ outcome |-> IF promises[p].state = "resolved" THEN "value" ELSE "error",
      value |-> promises[p].value ]

\* a call that returned another call's promise settles with that promise
waiterResume(w) ==
    /\ waiters[w] # 0
    /\ promises[waiters[w]].state \in { "resolved", "rejected" }
    /\ last' = [ Step("waiterResume", promises[waiters[w]].key,
                      sharedOutcome(waiters[w]).outcome,
                      sharedOutcome(waiters[w]).value)
                   EXCEPT !.promise = waiters[w] ]
    /\ waiters' = [ waiters EXCEPT ![w] = 0 ]
    /\ promises' = [ promises EXCEPT ![waiters[w]] =
                       IF /\ promises[waiters[w]].owner = "returned"
                          /\ \A w2 \in WaiterIds \ { w } : waiters[w2] # waiters[w]
                       THEN DonePromise
                       ELSE @ ]
    /\ effects' = <<>>
    /\ UNCHANGED << configVars, closing, reconnecting, cache, loadItemPromises,
                    nextPromise, removedMidLoad, listeners, connVars, chains,
                    closeSt >>

(* ----------------------------- del / reset ----------------------------- *)
\* a guard that never throws
assertNothing == "ok"

\* assertIsClosingOrClosed, lines 146-150
assertIsClosingOrClosed == IF closing THEN "ClosingError" ELSE "ok"

\* lines 174-178
del(key) ==
    /\ last' = Step("del", key, assertIsClosingOrClosed, 0)
    /\ IF assertIsClosingOrClosed = "ClosingError"
       THEN /\ effects' = <<>>
            /\ UNCHANGED << cache, loadItemPromises, removedMidLoad >>
       ELSE /\ effects' = publish(DelPayload(key)) \o << DidInternalDel(key) >>
            /\ loadItemPromises' = internalDelPromises(loadItemPromises, key)
            /\ cache' = internalDelCache(cache, key)
            /\ removedMidLoad' = noteRemoved(loadItemPromises')
    /\ UNCHANGED << configVars, closing, reconnecting, promises, nextPromise,
                    waiters, listeners, connVars, chains, closeSt >>

\* lines 182-186
reset ==
    /\ last' = Step("reset", NoKey, assertIsClosingOrClosed, 0)
    /\ IF assertIsClosingOrClosed = "ClosingError"
       THEN /\ effects' = <<>>
            /\ UNCHANGED << cache, loadItemPromises, removedMidLoad >>
       ELSE /\ effects' = publish(ResetPayload) \o << DidInternalReset >>
            /\ loadItemPromises' = EmptyTable
            /\ cache' = EmptyCache
            /\ removedMidLoad' = noteRemoved(loadItemPromises')
    /\ UNCHANGED << configVars, closing, reconnecting, promises, nextPromise,
                    waiters, listeners, connVars, chains, closeSt >>

(* ------------------------------ onMessage ------------------------------ *)
\* the consumer callback can run while a consumer of this instance is
\* registered on a live connection
consuming == \E c \in ConnIds : conns[c].state = "open" /\ conns[c].consumer

\* lines 106-111: what the payload does to the table
applyToPromises(table, content) ==
    IF content = ResetPayload
    THEN EmptyTable
    ELSE IF startsWith(content, DelPrefix)
         THEN internalDelPromises(table, substring(content, 4))
         ELSE table

\* lines 106-111: what the payload does to the store
applyToCache(c, content) ==
    IF content = ResetPayload
    THEN EmptyCache
    ELSE IF startsWith(content, DelPrefix)
         THEN internalDelCache(c, substring(content, 4))
         ELSE c

\* lines 106-111: which internal operation the payload selects
applied(content) ==
    IF content = ResetPayload
    THEN << DidInternalReset >>
    ELSE IF startsWith(content, DelPrefix)
         THEN << DidInternalDel(substring(content, 4)) >>
         ELSE <<>>

\* a consumer without the self-origin filter
isOwnMessageNever(publisherCacheId) == FALSE

\* line 102: the self-origin filter
isOwnMessage(publisherCacheId) == publisherCacheId = cacheId

\* lines 97-113, msg not null
onMessage(publisherCacheId, content) ==
    /\ noMicrotask
    /\ consuming
    /\ IF isOwnMessage(publisherCacheId)
       THEN /\ UNCHANGED << cache, loadItemPromises, removedMidLoad >>
            /\ effects' = <<>>
       ELSE /\ loadItemPromises' = applyToPromises(loadItemPromises, content)
            /\ cache' = applyToCache(cache, content)
            /\ removedMidLoad' = noteRemoved(loadItemPromises')
            /\ effects' = applied(content)
                          \o << EmitReceived(content, publisherCacheId) >>
    /\ last' = [ Step("onMessage", NoKey, "ok", 0)
                   EXCEPT !.header = publisherCacheId, !.content = content ]
    /\ UNCHANGED << configVars, closing, reconnecting, promises, nextPromise,
                    waiters, listeners, connVars, chains, closeSt >>

\* lines 98-100: the broker cancelled the consumer, the callback throws
onMessageNull ==
    /\ noMicrotask
    /\ consuming
    /\ last' = Step("onMessage", NoKey, "Error", 0)
    /\ effects' = <<>>
    /\ UNCHANGED << configVars, closing, reconnecting, cache, loadVars,
                    listeners, connVars, chains, closeSt >>

(* ----------------- connections and handleConnectionError --------------- *)
\* utils/once: the wrapped handler runs on the first event of a connection only
onceFires(c) == ~conns[c].fired

freeChain(i) ==
    /\ chains[i].pc = "idle"
    /\ \A j \in ChainIds : j < i => chains[j].pc # "idle"

\* lines 135-137: the interval the next retry waits
nextRetryInterval(retryInterval) ==
    IF retryInterval < retryIntervalUpTo
    THEN retryInterval + retryIntervalIncrease
    ELSE retryInterval

\* lines 121-128, closing false: the synchronous head of the handler, up to
\* the await of createConnection
handlerEnter(i, attempt, retryInterval) ==
    /\ reconnecting' = TRUE
    /\ loadItemPromises' = EmptyTable
    /\ cache' = EmptyCache
    /\ removedMidLoad' = noteRemoved(loadItemPromises')
    /\ effects' = << DidInternalReset,
                     EmitReconnect("reconnecting", attempt + 1, retryInterval) >>
    /\ chains' = [ chains EXCEPT ![i] =
                     [ pc |-> "connect", attempt |-> attempt + 1,
                       retryInterval |-> retryInterval, conn |-> 0 ] ]

\* a handler without the check at its head
returnsNever == FALSE

\* lines 118-120: handleConnectionError returns at once
returnsAtOnce == closing

\* a latch that lets the handler through whatever the closing flag says
handlerRunsWhileClosing(c) == onceFires(c)

\* lines 76-78 and 118-120: an event of connection c gets past the latch and
\* past the closing check at the head of handleConnectionError
handlerRuns(c) == onceFires(c) /\ ~returnsAtOnce

\* connection c emits "error" or "close": the first event of a live
\* connection is its loss, later ones come from the dead connection
connEvent(c) ==
    /\ noMicrotask
    /\ conns[c].state \in { "open", "closed" }
    /\ conns' = [ conns EXCEPT ![c].state = "closed", ![c].fired = TRUE,
                               ![c].consumer = FALSE ]
    /\ IF handlerRuns(c)
       THEN /\ \E i \in ChainIds : freeChain(i) /\ handlerEnter(i, 0, 0)
            /\ last' = Step("connEvent", NoKey, "handled", 0)
       ELSE /\ UNCHANGED << reconnecting, loadItemPromises, cache,
                            removedMidLoad, chains >>
            /\ effects' = <<>>
            /\ last' = Step("connEvent", NoKey, "ignored", 0)
    /\ UNCHANGED << configVars, closing, promises, nextPromise, waiters,
                    listeners, connection, publisherChannel, subscriberChannel,
                    nextConn, closeSt >>

\* line 128 resumes: connect() resolved, the handlers are latched on the new
\* connection, `connection` is assigned and createPublisher is awaited
connectSucceeds(i) ==
    /\ noMicrotask
    /\ chains[i].pc = "connect"
    /\ nextConn <= MaxConns
    /\ conns' = [ conns EXCEPT ![nextConn] =
                    [ state |-> "open", fired |-> FALSE, consumer |-> FALSE ] ]
    /\ connection' = nextConn
    /\ nextConn' = nextConn + 1
    /\ chains' = [ chains EXCEPT ![i].pc = "publisher", ![i].conn = nextConn ]
    /\ last' = Step("connectSucceeds", NoKey, "ok", 0)
    /\ effects' = <<>>
    /\ UNCHANGED << configVars, closing, reconnecting, cache, loadVars,
                    listeners, publisherChannel, subscriberChannel, closeSt >>

\* line 129 resumes: publisherChannel is assigned, createConsumer is awaited
\* on whatever `connection` holds now
publisherSucceeds(i) ==
    /\ noMicrotask
    /\ chains[i].pc = "publisher"
    /\ conns[chains[i].conn].state = "open"
    /\ publisherChannel' = chains[i].conn
    /\ chains' = [ chains EXCEPT ![i].pc = "consumer", ![i].conn = connection ]
    /\ last' = Step("publisherSucceeds", NoKey, "ok", 0)
    /\ effects' = <<>>
    /\ UNCHANGED << configVars, closing, reconnecting, cache, loadVars,
                    listeners, connection, subscriberChannel, conns, nextConn,
                    closeSt >>

\* a success path that forgets the second internalReset
storeKeptAfterReattach(c) == c

\* line 132: what internalReset leaves of the store after a successful reattach
storeAfterReattach(c) == EmptyCache

\* lines 130-133: the consumer is registered (the queue is exclusive, so no
\* other live consumer of this instance exists), the attempt succeeded
consumerSucceeds(i) ==
    /\ noMicrotask
    /\ chains[i].pc = "consumer"
    /\ conns[chains[i].conn].state = "open"
    /\ ~consuming
    /\ conns' = [ conns EXCEPT ![chains[i].conn].consumer = TRUE ]
    /\ subscriberChannel' = chains[i].conn
    /\ reconnecting' = FALSE
    /\ loadItemPromises' = EmptyTable
    /\ cache' = storeAfterReattach(cache)
    /\ removedMidLoad' = noteRemoved(loadItemPromises')
    /\ promises' = [ p \in PromiseIds |-> [ promises[p] EXCEPT !.outage = FALSE ] ]
    /\ effects' = << DidInternalReset,
                     EmitReconnect("reconnected", chains[i].attempt,
                                   chains[i].retryInterval) >>
    /\ chains' = [ chains EXCEPT ![i] = NoChain ]
    /\ last' = Step("consumerSucceeds", NoKey, "ok", 0)
    /\ UNCHANGED << configVars, closing, nextPromise, waiters, listeners,
                    connection, publisherChannel, nextConn, closeSt >>

\* a catch block that gives up instead of scheduling the retry
attemptFailsForGood(i) ==
    /\ noMicrotask
    /\ chains[i].pc \in { "connect", "publisher", "consumer" }
    /\ chains' = [ chains EXCEPT ![i] = NoChain ]
    /\ last' = Step("attemptFails", NoKey, "ok", 0)
    /\ effects' = <<>>
    /\ UNCHANGED << configVars, closing, reconnecting, cache, loadVars,
                    listeners, connVars, closeSt >>

\* lines 134-139: one of the three awaits rejected; the retry is scheduled
attemptFails(i) ==
    /\ noMicrotask
    /\ chains[i].pc \in { "connect", "publisher", "consumer" }
    /\ chains' = [ chains EXCEPT ![i].pc = "timer", ![i].conn = 0,
                     ![i].retryInterval = nextRetryInterval(chains[i].retryInterval) ]
    /\ last' = Step("attemptFails", NoKey, "ok", 0)
    /\ effects' = <<>>
    /\ UNCHANGED << configVars, closing, reconnecting, cache, loadVars,
                    listeners, connVars, closeSt >>

\* the timer of line 138 fires: handleConnectionError(error, attempt, retryInterval)
timerFires(i) ==
    /\ noMicrotask
    /\ chains[i].pc = "timer"
    /\ IF returnsAtOnce
       THEN /\ chains' = [ chains EXCEPT ![i] = NoChain ]
            /\ UNCHANGED << reconnecting, loadItemPromises, cache, removedMidLoad >>
            /\ effects' = <<>>
            /\ last' = Step("timerFires", NoKey, "returned", 0)
       ELSE /\ chains[i].attempt < MaxAttempt
            /\ handlerEnter(i, chains[i].attempt, chains[i].retryInterval)
            /\ last' = Step("timerFires", NoKey, "retry", 0)
    /\ UNCHANGED << configVars, closing, promises, nextPromise, waiters,
                    listeners, connVars, closeSt >>

(* -------------------------------- close -------------------------------- *)
\* lines 242-243: closing is set, subscriberChannel.cancel is awaited
closeCall ==
    /\ closeSt.pc = "idle"
    /\ closing' = TRUE
    /\ closeSt' = [ closeSt EXCEPT !.pc = "cancel", !.sub = subscriberChannel ]
    /\ last' = Step("close", NoKey, "cancelling", 0)
    /\ effects' = <<>>
    /\ UNCHANGED << configVars, reconnecting, cache, loadVars, listeners,
                    connVars, chains >>

\* line 243 settles; lines 244-247 await the two channel closes
closeCancelled ==
    /\ noMicrotask
    /\ closeSt.pc = "cancel"
    /\ IF conns[closeSt.sub].state = "open"
       THEN /\ conns' = [ conns EXCEPT ![closeSt.sub].consumer = FALSE ]
            /\ closeSt' = [ closeSt EXCEPT !.pc = "channels",
                              !.sub = subscriberChannel,
                              !.pub = publisherChannel ]
            /\ last' = Step("close", NoKey, "closingChannels", 0)
       ELSE /\ conns' = conns
            /\ closeSt' = [ closeSt EXCEPT !.pc = "failed" ]
            /\ last' = Step("close", NoKey, "error", 0)
    /\ effects' = <<>>
    /\ UNCHANGED << configVars, closing, reconnecting, cache, loadVars,
                    listeners, connection, publisherChannel, subscriberChannel,
                    nextConn, chains >>

\* lines 244-247 settle; line 248 awaits connection.close()
closeChannelsClosed ==
    /\ noMicrotask
    /\ closeSt.pc = "channels"
    /\ IF conns[closeSt.sub].state = "open" /\ conns[closeSt.pub].state = "open"
       THEN /\ closeSt' = [ closeSt EXCEPT !.pc = "connection",
                              !.conn = connection ]
            /\ last' = Step("close", NoKey, "closingConnection", 0)
       ELSE /\ closeSt' = [ closeSt EXCEPT !.pc = "failed" ]
            /\ last' = Step("close", NoKey, "error", 0)
    /\ effects' = <<>>
    /\ UNCHANGED << configVars, closing, reconnecting, cache, loadVars,
                    listeners, connVars, chains >>

\* line 248 settles: the connection emits "close", which the latched handler
\* answers by returning at line 119; then line 249, cache.reset()
closeConnectionClosed ==
    /\ noMicrotask
    /\ closeSt.pc = "connection"
    /\ IF conns[closeSt.conn].state = "open"
       THEN /\ conns' = [ conns EXCEPT ![closeSt.conn].state = "closed",
                            ![closeSt.conn].fired = TRUE,
                            ![closeSt.conn].consumer = FALSE ]
            /\ closeSt' = [ closeSt EXCEPT !.pc = "done" ]
            /\ last' = Step("close", NoKey, "ok", 0)
            /\ IF handlerRuns(closeSt.conn)
               THEN \E i \in ChainIds : freeChain(i) /\ handlerEnter(i, 0, 0)
               ELSE /\ cache' = EmptyCache
                    /\ effects' = << DidCacheReset >>
                    /\ UNCHANGED << reconnecting, loadItemPromises,
                                    removedMidLoad, chains >>
       ELSE /\ conns' = conns
            /\ closeSt' = [ closeSt EXCEPT !.pc = "failed" ]
            /\ effects' = <<>>
            /\ last' = Step("close", NoKey, "error", 0)
            /\ UNCHANGED << reconnecting, cache, loadItemPromises,
                            removedMidLoad, chains >>
    /\ UNCHANGED << configVars, closing, promises, nextPromise, waiters,
                    listeners, connection, publisherChannel, subscriberChannel,
                    nextConn >>

(* ------------------- inspectors, prune and listeners ------------------- *)
\* lines 219-240: has, keys, doesAllowStale, getItemCount, getLength,
\* getMax, getMaxAge
inspect(name, key) ==
    /\ last' = Step(name, key, assertIsClosingOrClosed,
                    IF assertIsClosingOrClosed = "ClosingError" THEN 0
                    ELSE IF name = "has"
                         THEN (IF cache[key] # Absent THEN 1 ELSE 0)
                         ELSE IF name \in { "keys", "getItemCount", "getLength" }
                              THEN itemCount(cache)
                              ELSE 0)
    /\ effects' = <<>>
    /\ UNCHANGED << configVars, closing, reconnecting, cache, loadVars,
                    listeners, connVars, chains, closeSt >>

\* lines 251-254: cache.prune() drops the entries that have expired
prune ==
    /\ last' = Step("prune", NoKey, assertIsClosingOrClosed, 0)
    /\ IF assertIsClosingOrClosed = "ClosingError"
       THEN cache' = cache
       ELSE \E expired \in SUBSET Keys :
               cache' = [ k \in Keys |-> IF k \in expired THEN Absent ELSE cache[k] ]
    /\ effects' = <<>>
    /\ UNCHANGED << configVars, closing, reconnecting, loadVars, listeners,
                    connVars, chains, closeSt >>

listenerEvent(name) ==
    IF name \in { "addInvalidationMessageReceivedListener",
                  "removeInvalidationMessageReceivedListener" }
    THEN "invalidation-message-received"
    ELSE IF name \in { "addReconnectingListener", "removeReconnectingListener" }
         THEN "reconnecting"
         ELSE "reconnected"

isAdd(name) ==
    name \in { "addInvalidationMessageReceivedListener",
               "addReconnectingListener", "addReconnectedListener" }

\* lines 255-272: the six listener operations; none calls assertIsClosingOrClosed
listenerOp(name) ==
    /\ IF isAdd(name)
       THEN /\ listeners[listenerEvent(name)] < MaxListeners
            /\ listeners' = [ listeners EXCEPT ![listenerEvent(name)] = @ + 1 ]
       ELSE listeners' = [ listeners EXCEPT ![listenerEvent(name)] =
                             IF @ > 0 THEN @ - 1 ELSE 0 ]
    /\ last' = Step(name, NoKey, "ok", 0)
    /\ effects' = <<>>
    /\ UNCHANGED << configVars, closing, reconnecting, cache, loadVars,
                    connVars, chains, closeSt >>

(* ------------------------------- system -------------------------------- *)
\* getOrLoad on the keys K and the loaders it awaits
LoadSteps(K) ==
    \/ \E k \in K : getOrLoad(k)
    \/ \E p \in PromiseIds : \E v \in { p, Absent } : loaderResolves(p, v)
    \/ \E p \in PromiseIds : loaderRejects(p)
    \/ \E p \in PromiseIds : getOrLoadResume(p)
    \/ \E w \in WaiterIds : waiterResume(w)

MutationSteps(K) ==
    \/ \E k \in K : del(k)
    \/ reset

ReconnectSteps ==
    \/ \E c \in ConnIds : connEvent(c)
    \/ \E i \in ChainIds : connectSucceeds(i)
    \/ \E i \in ChainIds : publisherSucceeds(i)
    \/ \E i \in ChainIds : consumerSucceeds(i)
    \/ \E i \in ChainIds : attemptFails(i)
    \/ \E i \in ChainIds : timerFires(i)

CloseSteps ==
    \/ closeCall
    \/ closeCancelled
    \/ closeChannelsClosed
    \/ closeConnectionClosed

\* the instance with its users, a peer that invalidates and a broker that
\* comes and goes; close is not called
Next ==
    \/ LoadSteps(UsedKeys)
    \/ MutationSteps(UsedKeys)
    \/ \E m \in { ResetPayload } \cup { DelPayload(k) : k \in UsedKeys } :
          onMessage(PeerId, m)
    \/ ReconnectSteps
    \/ prune

Spec == Init /\ [][Next]_vars

\* the consumer under every header and payload, on a stable connection
NextMessages ==
    \/ LoadSteps(Keys)
    \/ \E h \in Senders : \E m \in Payloads : onMessage(h, m)
    \/ onMessageNull
    \/ prune

SpecMessages == Init /\ [][NextMessages]_vars

\* every operation of the facade, before and after close, on a stable connection
NextFacade ==
    \/ LoadSteps(UsedKeys)
    \/ MutationSteps(UsedKeys)
    \/ CloseSteps
    \/ \E n \in InspectorOps : \E k \in UsedKeys :
          inspect(n, IF n = "has" THEN k ELSE NoKey)
    \/ prune
    \/ \E n \in ListenerOps : listenerOp(n)

SpecFacade == Init /\ [][NextFacade]_vars

\* the loads for the instance while the broker is away: users load, the
\* handler retries
NextOutage ==
    \/ LoadSteps(UsedKeys)
    \/ ReconnectSteps

SpecOutage == Init /\ [][NextOutage]_vars

\* close called at any point of a reconnect episode, with loads under way
NextShutdown ==
    \/ LoadSteps(UsedKeys)
    \/ ReconnectSteps
    \/ CloseSteps

SpecShutdown == Init /\ [][NextShutdown]_vars

\* A broker that recovers: a live connection is lost only between episodes
\* and an attempt fails only while the chain has a retry and a connection
\* left within the bounds, so that from some point on every attempt succeeds.
brokerDrops(c) ==
    /\ conns[c].state = "open" => (\A i \in ChainIds : chains[i].pc = "idle")
    /\ nextConn <= MaxConns
    /\ connEvent(c)

brokerRefuses(i) ==
    /\ chains[i].attempt < MaxAttempt
    /\ chains[i].pc = "connect" \/ nextConn <= MaxConns
    /\ attemptFails(i)

NextRecover ==
    \/ \E c \in ConnIds : brokerDrops(c)
    \/ \E i \in ChainIds : brokerRefuses(i)
    \/ \E i \in ChainIds : connectSucceeds(i)
    \/ \E i \in ChainIds : publisherSucceeds(i)
    \/ \E i \in ChainIds : consumerSucceeds(i)
    \/ \E i \in ChainIds : timerFires(i)
    \/ LoadSteps(UsedKeys)

\* the awaited promises of an attempt settle, the timer of line 138 fires,
\* and a call that awaits a settled promise is resumed
SpecRecover ==
    /\ Init
    /\ [][NextRecover]_vars
    /\ \A i \in ChainIds :
          /\ WF_vars(connectSucceeds(i))
          /\ WF_vars(publisherSucceeds(i))
          /\ WF_vars(consumerSucceeds(i))
          /\ WF_vars(timerFires(i))
    /\ \A p \in PromiseIds : WF_vars(getOrLoadResume(p))
    /\ \A w \in WaiterIds : WF_vars(waiterResume(w))

\* the user's loader settles its promise, one way or the other
loaderSettles(p) ==
    \/ \E v \in { p, Absent } : loaderResolves(p, v)
    \/ loaderRejects(p)

\* the instance of Spec with loaders that all settle in the end
SpecSettle ==
    /\ Init
    /\ [][Next]_vars
    /\ \A p \in PromiseIds :
          /\ WF_vars(loaderSettles(p))
          /\ WF_vars(getOrLoadResume(p))

(* ------------------------------ properties ----------------------------- *)
\* the supervisor's state, from the two booleans
Supervisor ==
    IF closing
    THEN (IF closeSt.pc = "done" THEN "Closed" ELSE "Closing")
    ELSE IF reconnecting THEN "Reconnecting" ELSE "Connected"

\* the loader invocations for key k that have not settled
InProgress(k) ==
    { p \in PromiseIds : promises[p].state = "pending" /\ promises[p].key = k }

\* this step is the resumption of the call that invoked loader p
Resumes(p) == promises[p].owner = "awaiting" /\ promises'[p].owner # "awaiting"

\* C1 as claimed: for every key, at most one loader invocation is in
\* progress in every reachable state.
C1_AtMostOneLoaderPerKey ==
    \A k \in Keys : Cardinality(InProgress(k)) <= 1

\* C1 as amended: for every key, at most one of the loader invocations in
\* progress still has the inflight entry it was started with; every other
\* one lost its entry while it was running.
C1_AtMostOneLoaderHoldsEntry ==
    \A k \in Keys : Cardinality(InProgress(k) \ removedMidLoad) <= 1

C1_TwoLoadersOneKey ==
    \E k \in Keys :
        /\ Cardinality(InProgress(k)) = 2
        /\ Cardinality(InProgress(k) \ removedMidLoad) = 1

\* C2: when the call that invoked a loader resumes with a resolved value and
\* its inflight entry was removed while the loader was running, the store is
\* left as it was and the call returns the loaded value.
C2_RemovedEntryNotStored ==
    [][ \A p \in PromiseIds :
          ( /\ Resumes(p)
            /\ promises[p].state = "resolved"
            /\ p \in removedMidLoad )
          => ( /\ cache' = cache
               /\ last'.op = "getOrLoadResume"
               /\ last'.outcome = "value"
               /\ last'.value = promises[p].value ) ]_vars

\* C3: a call that finds a pending entry takes the promise the table holds
\* and starts no loader; when it settles it has the outcome of that promise,
\* value or error, as has the call that invoked the loader; a rejected load
\* sets nothing in the store and publishes nothing.
C3_WaitersShareTheOutcome ==
    [][ /\ \A w \in WaiterIds :
              (waiters[w] = 0 /\ waiters'[w] # 0)
              => ( /\ loadItemPromises[last'.key] # 0
                   /\ waiters'[w] = loadItemPromises[last'.key]
                   /\ promises' = promises
                   /\ nextPromise' = nextPromise )
        /\ \A w \in WaiterIds :
              (waiters[w] # 0 /\ waiters'[w] = 0)
              => ( /\ last'.promise = waiters[w]
                   /\ last'.outcome =
                         (IF promises[waiters[w]].state = "rejected"
                          THEN "error" ELSE "value")
                   /\ last'.value = promises[waiters[w]].value
                   /\ cache' = cache
                   /\ effects' = <<>> )
        /\ \A p \in PromiseIds :
              Resumes(p)
              => ( /\ last'.outcome =
                         (IF promises[p].state = "rejected" THEN "error" ELSE "value")
                   /\ last'.value = promises[p].value
                   /\ promises[p].state = "rejected"
                         => ( /\ cache' = cache
                              /\ OfKind(effects', "cache.set") = <<>>
                              /\ OfKind(effects', "publish") = <<>> ) ) ]_vars

C3_WaiterGotTheError ==
    /\ last.op = "waiterResume"
    /\ last.outcome = "error"
    /\ last.value = last.promise
    /\ cache = EmptyCache

\* this step is the consumer callback running on a message
Delivered == last'.op = "onMessage" /\ last'.outcome = "ok"

\* C4: a message whose x-cache-id is the local cacheId leaves the store and
\* the table as they were and emits nothing, whatever its payload.
C4_OwnMessagesChangeNothing ==
    [][ (Delivered /\ last'.header = cacheId)
        => ( /\ cache' = cache
             /\ loadItemPromises' = loadItemPromises
             /\ effects' = <<>> ) ]_vars

C4_OwnResetOnFullState ==
    /\ last.op = "onMessage"
    /\ last.header = cacheId
    /\ last.content = ResetPayload
    /\ \E k \in Keys : cache[k] # Absent
    /\ \E k \in Keys : loadItemPromises[k] # 0

\* the <key> parts of the payloads that begin with del:
DelKeys == Keys \cup { <<>>, <<"a","b">> }

\* C5: for a message from another instance, del:<key> removes that key from
\* the store and the table and leaves every other key as it was, reset
\* empties both, any other payload changes neither, and each of them emits
\* one invalidation-message-received event with the payload and the sender.
C5_PeerMessagesApplied ==
    [][ (Delivered /\ last'.header # cacheId)
        => ( /\ last'.content = ResetPayload
                  => cache' = EmptyCache /\ loadItemPromises' = EmptyTable
             /\ \A k \in DelKeys :
                  last'.content = DelPrefix \o k
                  => ( /\ cache' = [ kk \in Keys |->
                                       IF kk = k THEN Absent ELSE cache[kk] ]
                       /\ loadItemPromises' =
                              [ kk \in Keys |->
                                  IF kk = k THEN 0 ELSE loadItemPromises[kk] ] )
             /\ last'.content \notin
                    ({ ResetPayload } \cup { DelPrefix \o k : k \in DelKeys })
                  => cache' = cache /\ loadItemPromises' = loadItemPromises
             /\ OfKind(effects', "emit") =
                    << EmitReceived(last'.content, last'.header) >> ) ]_vars

C5_PeerDelSparesTheOtherKey ==
    /\ last.op = "onMessage"
    /\ last.header = PeerId
    /\ last.content = DelPayload(<<"a">>)
    /\ effects = << DidInternalDel(<<"a">>),
                    EmitReceived(DelPayload(<<"a">>), PeerId) >>
    /\ \E p \in PromiseIds :
          /\ promises[p].key = <<"a">>
          /\ promises[p].state = "pending"
          /\ p \in removedMidLoad
    /\ cache[<<"b">>] # Absent

\* C6: without allowStaleData, whenever the supervisor is Reconnecting the
\* store holds no item, and a load that completes then sets nothing.
C6_EmptyWhileReconnecting ==
    (~allowStaleData /\ Supervisor = "Reconnecting")
    => ( /\ itemCount(cache) = 0
         /\ last.op = "getOrLoadResume" => OfKind(effects, "cache.set") = <<>> )

C6_LoadCompletedWhileReconnecting ==
    /\ ~allowStaleData
    /\ Supervisor = "Reconnecting"
    /\ last.op = "getOrLoadResume"
    /\ last.outcome = "value"
    /\ last.value # Absent
    /\ effects = << DidDeleteEntry(last.key) >>

\* C7: with allowStaleData, a load that began while reconnecting and
\* completes with a value before the reconnected event is in the store
\* right after its completion.
C7_OutageLoadsAreStored ==
    [][ \A p \in PromiseIds :
          ( /\ allowStaleData
            /\ Resumes(p)
            /\ promises[p].outage
            /\ Supervisor = "Reconnecting"
            /\ promises[p].state = "resolved"
            /\ promises[p].value # Absent )
          => cache'[promises[p].key] = promises[p].value ]_vars

\* the operations that call assertIsClosingOrClosed
GuardedOps == { "getOrLoad", "del", "reset", "prune" } \cup InspectorOps

C9_PublishThenApply ==
    Supervisor = "Connected"
    => ( /\ last.op = "del"
              => ( /\ last.outcome = "ok"
                   /\ effects = << Published(DelPrefix \o last.key, cacheId),
                                   DidInternalDel(last.key) >> )
         /\ last.op = "reset"
              => ( /\ last.outcome = "ok"
                   /\ effects = << Published(ResetPayload, cacheId),
                                   DidInternalReset >> ) )

C9_DelPublishedAfterRecovery ==
    /\ Supervisor = "Connected"
    /\ subscriberChannel # 1
    /\ last.op = "del"
    /\ Len(OfKind(effects, "publish")) = 1

\* C10: while the supervisor is Reconnecting, del(k) and reset publish
\* nothing and do not fail, and the key, or every key, is gone from the
\* store and the table afterwards.
C10_SilentWhileReconnecting ==
    Supervisor = "Reconnecting"
    => ( /\ last.op = "del"
              => ( /\ last.outcome = "ok"
                   /\ effects = << DidInternalDel(last.key) >>
                   /\ cache[last.key] = Absent
                   /\ loadItemPromises[last.key] = 0 )
         /\ last.op = "reset"
              => ( /\ last.outcome = "ok"
                   /\ effects = << DidInternalReset >>
                   /\ cache = EmptyCache
                   /\ loadItemPromises = EmptyTable ) )

C10_DelDuringOutage ==
    /\ Supervisor = "Reconnecting"
    /\ last.op = "del"
    /\ effects = << DidInternalDel(last.key) >>
    /\ \E p \in PromiseIds :
          /\ promises[p].key = last.key
          /\ promises[p].state = "pending"
          /\ promises[p].outage
          /\ p \in removedMidLoad

\* the step just taken emitted the reconnected event (line 133)
ReconnectedEmitted ==
    \E e \in { effects[n] : n \in 1..Len(effects) } :
        e.kind = "emit" /\ e.name = "reconnected"

C12_RetryIntervalWithinCap ==
    [][ \A i \in ChainIds :
          /\ (chains[i].pc = "idle" /\ chains'[i].pc # "idle")
                => chains'[i].retryInterval = 0
          /\ (chains[i].pc # "timer" /\ chains'[i].pc = "timer")
                => chains'[i].retryInterval =
                       (IF chains[i].retryInterval >= retryIntervalUpTo
                        THEN chains[i].retryInterval
                        ELSE chains[i].retryInterval + retryIntervalIncrease)
          /\ chains'[i].retryInterval <= retryIntervalUpTo ]_vars

\* the step just taken emitted a reconnecting event (line 127)
ReconnectingEmitted ==
    \E e \in { effects[n] : n \in 1..Len(effects) } :
        e.kind = "emit" /\ e.name = "reconnecting"

\* C13 as claimed: once close has been invoked no retry is scheduled any
\* more and no reconnecting event is emitted.
C13_NoRetryScheduledAfterClose ==
    [][ closing
        => ( /\ \A i \in ChainIds :
                   chains'[i].pc = "timer" => chains[i].pc = "timer"
             /\ ~ReconnectingEmitted' ) ]_vars

\* C13 as amended: once close has been invoked no reconnecting event is
\* emitted and no connection attempt is started: a handler that is called
\* from then on, by a timer or by a connection event, returns at once. An
\* attempt that was under way can still fail and schedule its timer.
C13_NoAttemptStartedAfterClose ==
    [][ closing
        => ( /\ ~ReconnectingEmitted'
             /\ reconnecting' => reconnecting
             /\ \A i \in ChainIds :
                   /\ chains'[i].pc = "connect" => chains[i].pc = "connect"
                   /\ chains[i].pc = "timer" => chains'[i].pc \in { "timer", "idle" }
                   /\ chains[i].pc = "idle" => chains'[i].pc = "idle"
                   /\ chains'[i].attempt <= chains[i].attempt ) ]_vars

C13_TimerOfFailedAttemptReturns ==
    /\ closing
    /\ last.op = "timerFires"
    /\ last.outcome = "returned"
    /\ reconnecting
    /\ \A i \in ChainIds : chains[i].pc = "idle"

\* the positions close goes through, in the order of lines 242-249; from
\* each of its awaits it can also reject
CloseOrder ==
    { << "idle", "cancel" >>, << "cancel", "channels" >>,
      << "channels", "connection" >>, << "connection", "done" >>,
      << "cancel", "failed" >>, << "channels", "failed" >>,
      << "connection", "failed" >> }

\* C14: close marks the instance closing, then cancels the consumer, then
\* closes the two channels, then closes the connection, then resets the
\* store, and resolves only with that last step; the close event of the
\* connection it closes starts no reconnect episode.
C14_CloseInOrder ==
    [][ /\ closeSt'.pc # closeSt.pc => << closeSt.pc, closeSt'.pc >> \in CloseOrder
        /\ closeSt'.pc # "idle" => closing'
        /\ (closeSt.pc = "idle" /\ closeSt'.pc = "cancel")
              => closeSt'.sub = subscriberChannel
        /\ (closeSt.pc = "cancel" /\ closeSt'.pc = "channels")
              => ( /\ ~conns'[closeSt.sub].consumer
                   /\ closeSt'.sub = subscriberChannel
                   /\ closeSt'.pub = publisherChannel
                   /\ cache' = cache )
        /\ (closeSt.pc = "channels" /\ closeSt'.pc = "connection")
              => ( /\ closeSt'.conn = connection
                   /\ conns' = conns
                   /\ cache' = cache )
        /\ (closeSt.pc = "connection" /\ closeSt'.pc = "done")
              => ( /\ conns'[closeSt.conn].state = "closed"
                   /\ cache' = EmptyCache
                   /\ effects' = << DidCacheReset >>
                   /\ chains' = chains
                   /\ reconnecting' = reconnecting )
        /\ (last'.op = "close" /\ last'.outcome = "ok")
              <=> (closeSt.pc = "connection" /\ closeSt'.pc = "done") ]_vars

C14_ClosedAfterRecovery ==
    /\ closeSt.pc = "done"
    /\ last.op = "close"
    /\ last.outcome = "ok"
    /\ closeSt.conn # 1
    /\ conns[closeSt.conn].state = "closed"
    /\ ~reconnecting
    /\ effects = << DidCacheReset >>

\* the retry chains that are running
Running == { i \in ChainIds : chains[i].pc # "idle" }

\* C15: a connection event starts the reconnect handler only when no episode
\* is under way, so that never two retry chains run at the same time.
C15_OneChainPerEpisode ==
    [][ /\ (last'.op = "connEvent" /\ last'.outcome = "handled")
              => (~reconnecting /\ Running = {})
        /\ Cardinality(Running') <= 1 ]_vars

\* the attempt numbers the step just taken passed to the listeners of event name
EmittedAttempts(name) ==
    { effects[n].value :
        n \in { m \in 1..Len(effects) :
                  effects[m].kind = "emit" /\ effects[m].name = name } }

\* C16: the first reconnecting event of an episode carries attempt 1 and each
\* later one carries one more than the one before it; the reconnected event
\* carries the number of the attempt that succeeded and ends the episode, no
\* attempt being left that could emit another one.
C16_AttemptsCountUp ==
    [][ /\ \A a \in EmittedAttempts("reconnecting")' :
              IF reconnecting
              THEN Running # {} /\ \A i \in Running : a = chains[i].attempt + 1
              ELSE a = 1
        /\ \A a \in EmittedAttempts("reconnected")' :
              /\ reconnecting
              /\ \A i \in Running : a >= chains[i].attempt
              /\ \E i \in Running : a = chains[i].attempt
              /\ Running' = {} ]_vars

\* C17: when close is never called and the attempts end up succeeding, a
\* supervisor that is Reconnecting becomes Connected by emitting reconnected,
\* and a chain that waits on its timer after a failed attempt goes on to the
\* next attempt.
C17_EventuallyReconnected ==
    /\ (Supervisor = "Reconnecting")
           ~> (Supervisor = "Connected" /\ ReconnectedEmitted)
    /\ \A i \in ChainIds :
          (chains[i].pc = "timer") ~> (chains[i].pc = "connect")

C17_RecoveredAtLastAttempt ==
    /\ Supervisor = "Connected"
    /\ EmittedAttempts("reconnected") = { MaxAttempt }

\* C18: once close has been invoked no reconnected event is emitted, the
\* reconnecting flag is not lowered, and no connection is opened, no channel
\* assigned and no consumer registered any more.
C18_ClosingIsTerminal ==
    [][ closing
        => ( /\ closing'
             /\ ~ReconnectedEmitted'
             /\ reconnecting => reconnecting'
             /\ connection' = connection
             /\ publisherChannel' = publisherChannel
             /\ subscriberChannel' = subscriberChannel
             /\ \A c \in ConnIds :
                   /\ conns'[c].state = "open" => conns[c].state = "open"
                   /\ conns'[c].consumer => conns[c].consumer ) ]_vars

\* C19: once close has completed the store is empty, and it stays empty.
C19_EmptyAfterClose ==
    closeSt.pc = "done" => cache = EmptyCache

====
